---- MODULE Spec2Model ----
(***************************************************************************)
(* Inference gateway of OutbreakGuardian (backend/main-lstm.py, main.py,   *)
(* main-working.py, main-minimal.py): startup loading of the artifacts,    *)
(* predict, predictBatch, optimize, getModelInfo and the health query.     *)
(*                                                                         *)
(* Numbers.  A Python float is a record [nan, v]: NaN, or the number       *)
(* v / U.  Float fields of a request are integers counted in tenths        *)
(* (1 / T); previousCases and the resource counts are Python ints.         *)
(***************************************************************************)
EXTENDS Integers, Sequences, FiniteSets, TLC

VARIABLES app, phase, TENSORFLOW_AVAILABLE, SKLEARN_AVAILABLE,
          lstm_model, scaler, outbreak_model, optimization_model,
          model_info, hashseed, reply

vars == <<app, phase, TENSORFLOW_AVAILABLE, SKLEARN_AVAILABLE,
          lstm_model, scaler, outbreak_model, optimization_model,
          model_info, hashseed, reply>>

----------------------------------------------------------------------------
(* Bounds of the model *)

\* longest batch of a predictBatch request
MaxBatch == 2

\* number of hash seeds a process may start with
MaxSeed == 2

\* stand-in for the largest int Python converts to a float (2^1024 - 1)
MaxFloatInt == 1000

----------------------------------------------------------------------------
(* Python floats *)

\* resolution of a float value: v stands for v / U
U == 2 * 10000

\* resolution of a float request field: x stands for x / T
T == 2 * 5

Num(n) == [nan |-> FALSE, v |-> n]

NaN == [nan |-> TRUE, v |-> 0]

\* the whole number n as a float
Whole(n) == Num(n * U)

\* a > b on floats: every comparison with NaN is false
Gt(a, b) == ~a.nan /\ ~b.nan /\ a.v > b.v

\* Python max(a, b): the first argument unless the second is greater
PyMax(a, b) == IF Gt(b, a) THEN b ELSE a

\* Python min(a, b): the first argument unless the second is smaller
PyMin(a, b) == IF Gt(a, b) THEN b ELSE a

\* lo <= x <= hi, false of NaN
InRange(x, lo, hi) == ~x.nan /\ lo * U <= x.v /\ x.v <= hi * U

\* x >= lo, false of NaN
AtLeast(x, lo) == ~x.nan /\ x.v >= lo * U

\* (x / T) * (num / den) in units of 1 / U, x a float field in tenths
Scaled(x, num, den) == (x * num * U) \div (den * T)

\* float(n) of a Python int raises OverflowError beyond the float range
IntOverflows(n) == n > MaxFloatInt \/ n < 0 - MaxFloatInt

\* n * (num / den) in units of 1 / U, n a Python int within the float range
IntScaled(n, num, den) == (n * num * U) \div den

\* |x|
Abs(x) == IF x < 0 THEN 0 - x ELSE x

----------------------------------------------------------------------------
(* Results of a Python call: a returned value or a raised exception *)

Return(val) == [raised |-> FALSE, exc |-> "", value |-> val]

Raise(e, val) == [raised |-> TRUE, exc |-> e, value |-> val]

\* None, the absent artifact handle
None == "None"

----------------------------------------------------------------------------
(* Requests *)

TS1 == "2024-01-01T12:00:00Z"

TS2 == "2024-01-01T13:00:00Z"

Timestamps == {TS1, TS2}

\* a previousCases beyond the float range
HugeCases == MaxFloatInt + 1

MLPredictionInput(t, h, pd, pc, w, s, ts) ==
    [temperature |-> t, humidity |-> h, populationDensity |-> pd,
     previousCases |-> pc, wastewaterLevels |-> w,
     socialMediaSentiment |-> s, timestamp |-> ts]

\* the request of test_prediction: 25.5, 60.0, 1500.0, 20, 45.0, 0.6
ExampleInput == MLPredictionInput(255, 600, 15000, 20, 450, 6, TS1)

\* the second request of test_batch_prediction: 22.0, 55.0, 1200.0, 15, 35.0, 0.5
SecondInput == MLPredictionInput(220, 550, 12000, 15, 350, 5, TS2)

\* the feature vectors requests are drawn from: the two test requests, one
\* below both clamps, one above the risk clamp, one whose previousCases has
\* no float
FeatureSamples ==
    { <<255, 600, 15000, 20, 450, 6>>,
      <<220, 550, 12000, 15, 350, 5>>,
      <<0 - 400, 0, 0, 0, 0, 0>>,
      <<400, 1000, 20000, 100, 1000, 10>>,
      <<255, 600, 15000, HugeCases, 450, 6>> }

PredictionInputs ==
    { MLPredictionInput(f[1], f[2], f[3], f[4], f[5], f[6], ts) :
        f \in FeatureSamples, ts \in Timestamps }

\* PredictionInput of the data model: previousCases a non-negative int, taken
\* here within the range of a float
ValidPredictionInput(i) ==
    i.previousCases >= 0 /\ ~IntOverflows(i.previousCases)

----------------------------------------------------------------------------
(* Prediction results *)

\* the featureImportance mapping in the order of its weights
FEATURE_IMPORTANCE_by_weight ==
    << <<"previousCases", 91>>, <<"temperature", 85>>, <<"humidity", 72>>,
       <<"populationDensity", 68>>, <<"wastewaterLevels", 63>>,
       <<"socialMediaSentiment", 45>> >>

\* the constant featureImportance mapping, in insertion order, weights in
\* hundredths
FEATURE_IMPORTANCE ==
    << <<"temperature", 85>>, <<"humidity", 72>>, <<"populationDensity", 68>>,
       <<"previousCases", 91>>, <<"wastewaterLevels", 63>>,
       <<"socialMediaSentiment", 45>> >>

MLPredictionOutput(r, c, conf, fi) ==
    [riskLevel |-> r, predictedCases |-> c, confidence |-> conf,
     featureImportance |-> fi]

\* the value of a call that returned nothing
NoOutput == MLPredictionOutput(NaN, NaN, NaN, << >>)

\* hash(str(timestamp)): fixed for the life of the process by its hash seed,
\* of either sign
PyHash(seed, ts) ==
    IF ts = TS1 THEN seed * 7919 - 10000 ELSE 20011 - seed * 15013

\* risk_level of simulate_prediction, before the clamp
RiskSum(i) ==
    30 * U + Scaled(i.temperature - 20 * T, 5, 10)
           + Scaled(i.humidity - 50 * T, 3, 10)
           + IntScaled(i.previousCases, 8, 10)
           + Scaled(i.wastewaterLevels, 6, 10)

\* predicted_cases of simulate_prediction, before the clamp
CasesSum(i) ==
    IntScaled(i.previousCases, 11, 10)
        + Scaled(i.populationDensity, 5, 10000)
        + Scaled(i.socialMediaSentiment - 5, 10, 1)

\* lstm_simulate_prediction with the wastewater term given the temperature
\* term's coefficient
lstm_simulate_prediction_coefficient(input_data, seed) ==
    IF IntOverflows(input_data.previousCases)
    THEN Raise("OverflowError", NoOutput)
    ELSE Return(MLPredictionOutput(
            PyMin(Whole(100), PyMax(Whole(0),
                Num(RiskSum(input_data)
                    - Scaled(input_data.wastewaterLevels, 1, 10)))),
            PyMax(Whole(0), Num(CasesSum(input_data))),
            PyMin(Whole(95),
                  Whole(70 + (PyHash(seed, input_data.timestamp) % 25))),
            FEATURE_IMPORTANCE))

\* lstm_simulate_prediction hashing the whole request instead of its timestamp
lstm_simulate_prediction_hash_request(input_data, seed) ==
    IF IntOverflows(input_data.previousCases)
    THEN Raise("OverflowError", NoOutput)
    ELSE Return(MLPredictionOutput(
            PyMin(Whole(100), PyMax(Whole(0), Num(RiskSum(input_data)))),
            PyMax(Whole(0), Num(CasesSum(input_data))),
            PyMin(Whole(95),
                  Whole(70 + ((PyHash(seed, input_data.timestamp)
                                 + input_data.previousCases) % 25))),
            FEATURE_IMPORTANCE))

\* lstm_simulate_prediction taking the remainder with the sign of the hash
lstm_simulate_prediction_remainder(input_data, seed) ==
    IF IntOverflows(input_data.previousCases)
    THEN Raise("OverflowError", NoOutput)
    ELSE LET h == PyHash(seed, input_data.timestamp)
             remainder == IF h >= 0 THEN h % 25 ELSE 0 - ((0 - h) % 25)
         IN Return(MLPredictionOutput(
                PyMin(Whole(100), PyMax(Whole(0), Num(RiskSum(input_data)))),
                PyMax(Whole(0), Num(CasesSum(input_data))),
                PyMin(Whole(95), Whole(70 + remainder)),
                FEATURE_IMPORTANCE))

\* main-lstm.py simulate_prediction
lstm_simulate_prediction(input_data, seed) ==
    IF IntOverflows(input_data.previousCases)
    THEN Raise("OverflowError", NoOutput)
    ELSE Return(MLPredictionOutput(
            PyMin(Whole(100), PyMax(Whole(0), Num(RiskSum(input_data)))),
            PyMax(Whole(0), Num(CasesSum(input_data))),
            PyMin(Whole(95),
                  Whole(70 + (PyHash(seed, input_data.timestamp) % 25))),
            FEATURE_IMPORTANCE))

\* main-minimal.py simulate_prediction
minimal_simulate_prediction(input_data, seed) ==
    IF IntOverflows(input_data.previousCases)
    THEN Raise("OverflowError", NoOutput)
    ELSE Return(MLPredictionOutput(
            PyMin(Whole(100), PyMax(Whole(0), Num(RiskSum(input_data)))),
            PyMax(Whole(0), Num(CasesSum(input_data))),
            PyMin(Whole(95),
                  Whole(70 + (PyHash(seed, input_data.timestamp) % 25))),
            FEATURE_IMPORTANCE))

\* the values np.random.random() is drawn from, in units of 1 / U: [0, 1)
Randoms == {0, U \div 2, U - 1}

\* main.py simulate_prediction; rnd is the draw of np.random.random()
main_simulate_prediction(input_data, rnd) ==
    IF IntOverflows(input_data.previousCases)
    THEN Raise("OverflowError", NoOutput)
    ELSE Return(MLPredictionOutput(
            PyMin(Whole(100), PyMax(Whole(0), Num(RiskSum(input_data)))),
            PyMax(Whole(0), Num(CasesSum(input_data))),
            PyMin(Whole(95), Num(70 * U + rnd * 25)),
            FEATURE_IMPORTANCE))

\* main-working.py predict_outbreak: the enhanced simulation, any exception
\* turned into HTTPException(500)
working_predict_outbreak(input_data) ==
    IF IntOverflows(input_data.previousCases)
    THEN Raise("HTTPException: Prediction failed", NoOutput)
    ELSE Return(MLPredictionOutput(
            PyMin(Whole(100), PyMax(Whole(0),
                Num(RiskSum(input_data)
                    + Scaled(input_data.socialMediaSentiment - 5, 20, 1)))),
            PyMax(Whole(0),
                Num(CasesSum(input_data)
                    + Scaled(input_data.temperature - 20 * T, 2, 10))),
            PyMin(Whole(95), PyMax(Whole(70),
                Num(85 * U
                    - Scaled(Abs(input_data.temperature - 25 * T), 5, 10)
                    - Scaled(Abs(input_data.humidity - 60 * T), 3, 10)))),
            FEATURE_IMPORTANCE))

----------------------------------------------------------------------------
(* The model path of predict (main-lstm.py) *)

\* the fitted scaler artifact: transform subtracts its centre, feature by
\* feature (in tenths)
ScalerCenter == <<200, 500, 10000, 100, 300, 5>>

\* the outcomes of one invocation of the predictive model: it raises, or it
\* returns an array of ndim dimensions: of shape (1, k) with the one row
\* row (ndim = 2), or of shape (1, t, k) whose timesteps are those of
\* earlier followed by row (ndim = 3)
Raises == [raises |-> TRUE, ndim |-> 0, row |-> << >>, earlier |-> << >>]

\* the timesteps a 3-dimensional output holds before its last one
EarlierTimesteps == << << Whole(10), Whole(20), Whole(30) >> >>

Array(n, r) ==
    [raises |-> FALSE, ndim |-> n, row |-> r,
     earlier |-> IF n = 3 THEN EarlierTimesteps ELSE << >>]

\* prediction[0, -1, :] of a 3-dimensional output
LastTimestep(prediction) ==
    LET timesteps == Append(prediction.earlier, prediction.row)
    IN timesteps[Len(timesteps)]

\* rows of raw scalars: none, one, two below 0, three above 100 and in
\* range, three NaN, four in range
RawRows ==
    { << >>,
      << Whole(42) >>,
      << Whole(0 - 5), Whole(0 - 3) >>,
      << Whole(150), Whole(2500), Whole(200) >>,
      << NaN, NaN, NaN >>,
      << Num(1575000), Num(475000), Whole(91), Whole(7) >> }

ModelOutcomes == {Raises} \cup { Array(n, r) : n \in {2, 3}, r \in RawRows }

\* what the artifacts do during one request: whether scaler.transform raises,
\* and the outcome of model.predict
NoRun == [transform |-> "none", predict |-> Raises]

ModelRuns(sc) ==
    (IF sc = None THEN {} ELSE {[transform |-> "raise", predict |-> Raises]})
    \cup { [transform |-> "ok", predict |-> o] : o \in ModelOutcomes }

\* the six features in canonical order
Features(input_data) ==
    << input_data.temperature, input_data.humidity,
       input_data.populationDensity, input_data.previousCases * T,
       input_data.wastewaterLevels, input_data.socialMediaSentiment >>

\* preprocess_input padding the sequence with zeros before the one reading
preprocess_input_padded(input_data, sc, run, sequence_length) ==
    IF IntOverflows(input_data.previousCases)
    THEN Raise("OverflowError", << >>)
    ELSE IF sc # None /\ run.transform = "raise"
    THEN Raise("ValueError", << >>)
    ELSE LET features == IF sc = None
                         THEN Features(input_data)
                         ELSE [k \in 1..6 |->
                                 Features(input_data)[k] - ScalerCenter[k]]
         IN Return([step \in 1..sequence_length |->
                      IF step = sequence_length
                      THEN features
                      ELSE [k \in 1..6 |-> 0]])

\* main-lstm.py preprocess_input: the (1, sequence_length, 6) tensor as its
\* sequence_length rows
preprocess_input(input_data, sc, run, sequence_length) ==
    \* np.array of a previousCases that has no float
    IF IntOverflows(input_data.previousCases)
    THEN Raise("OverflowError", << >>)
    ELSE IF sc # None /\ run.transform = "raise"
    THEN Raise("ValueError", << >>)
    ELSE LET features == IF sc = None
                         THEN Features(input_data)
                         ELSE [k \in 1..6 |->
                                 Features(input_data)[k] - ScalerCenter[k]]
         IN Return([step \in 1..sequence_length |-> features])

\* predict_with_lstm with the arguments of max and min in the other order,
\* which lets NaN through
predict_with_lstm_swapped(input_data, model, sc, run) ==
    IF model = None
    THEN Raise("Exception", NoOutput)
    ELSE IF preprocess_input(input_data, sc, run, 7).raised
    THEN Raise("ValueError", NoOutput)
    ELSE IF run.predict.raises
    THEN Raise("Exception", NoOutput)
    ELSE LET row == IF run.predict.ndim = 3
                    THEN LastTimestep(run.predict)
                    ELSE run.predict.row
             vector == run.predict.ndim # 2
             length == IF vector THEN Len(row) ELSE 1
         IN IF ~vector /\ Len(row) # 1
            THEN Raise("TypeError", NoOutput)
            ELSE LET risk_level == IF length > 0 THEN row[1] ELSE Whole(50)
                     predicted_cases ==
                         IF length > 1 THEN row[2] ELSE Whole(25)
                     confidence == IF length > 2 THEN row[3] ELSE Whole(85)
                 IN Return(MLPredictionOutput(
                        PyMin(PyMax(risk_level, Whole(0)), Whole(100)),
                        PyMax(predicted_cases, Whole(0)),
                        PyMin(PyMax(confidence, Whole(0)), Whole(100)),
                        FEATURE_IMPORTANCE))

\* predict_with_lstm taking the first timestep of a 3-dimensional output
predict_with_lstm_first_timestep(input_data, model, sc, run) ==
    IF model = None
    THEN Raise("Exception", NoOutput)
    ELSE IF preprocess_input(input_data, sc, run, 7).raised
    THEN Raise("ValueError", NoOutput)
    ELSE IF run.predict.raises
    THEN Raise("Exception", NoOutput)
    ELSE LET row == IF run.predict.ndim = 3
                    THEN Append(run.predict.earlier, run.predict.row)[1]
                    ELSE run.predict.row
             vector == run.predict.ndim # 2
             length == IF vector THEN Len(row) ELSE 1
         IN IF ~vector /\ Len(row) # 1
            THEN Raise("TypeError", NoOutput)
            ELSE LET risk_level == IF length > 0 THEN row[1] ELSE Whole(50)
                     predicted_cases ==
                         IF length > 1 THEN row[2] ELSE Whole(25)
                     confidence == IF length > 2 THEN row[3] ELSE Whole(85)
                 IN Return(MLPredictionOutput(
                        PyMin(Whole(100), PyMax(Whole(0), risk_level)),
                        PyMax(Whole(0), predicted_cases),
                        PyMin(Whole(100), PyMax(Whole(0), confidence)),
                        FEATURE_IMPORTANCE))

\* main-lstm.py predict_with_lstm
predict_with_lstm(input_data, model, sc, run) ==
    IF model = None
    THEN Raise("Exception", NoOutput)
    ELSE IF preprocess_input(input_data, sc, run, 7).raised
    THEN Raise("ValueError", NoOutput)
    ELSE IF run.predict.raises
    THEN Raise("Exception", NoOutput)
    ELSE LET \* lines 167-168: the last timestep of a 3-dimensional output
             row == IF run.predict.ndim = 3
                    THEN LastTimestep(run.predict)
                    ELSE run.predict.row
             \* prediction is then a vector unless it came 2-dimensional
             vector == run.predict.ndim # 2
             length == IF vector THEN Len(row) ELSE 1
         IN \* float(prediction[0]) of a row that is not of size 1
            IF ~vector /\ Len(row) # 1
            THEN Raise("TypeError", NoOutput)
            ELSE LET risk_level == IF length > 0 THEN row[1] ELSE Whole(50)
                     predicted_cases ==
                         IF length > 1 THEN row[2] ELSE Whole(25)
                     confidence == IF length > 2 THEN row[3] ELSE Whole(85)
                 IN Return(MLPredictionOutput(
                        PyMin(Whole(100), PyMax(Whole(0), risk_level)),
                        PyMax(Whole(0), predicted_cases),
                        PyMin(Whole(100), PyMax(Whole(0), confidence)),
                        FEATURE_IMPORTANCE))

\* lstm_predict_outbreak whose handler lets the model path's exception out
lstm_predict_outbreak_reraise(input_data, run) ==
    IF lstm_model # None /\ TENSORFLOW_AVAILABLE
    THEN predict_with_lstm(input_data, lstm_model, scaler, run)
    ELSE lstm_simulate_prediction(input_data, hashseed)

\* main-lstm.py predict_outbreak
lstm_predict_outbreak(input_data, run) ==
    LET attempt == IF lstm_model # None /\ TENSORFLOW_AVAILABLE
                   THEN predict_with_lstm(input_data, lstm_model, scaler, run)
                   ELSE lstm_simulate_prediction(input_data, hashseed)
    IN IF attempt.raised
       THEN lstm_simulate_prediction(input_data, hashseed)
       ELSE attempt

\* main.py predict_outbreak; the model returns a (1, k) array, row its row
main_predict_outbreak(input_data, run, rnd) ==
    LET attempt ==
            IF outbreak_model = None
            THEN main_simulate_prediction(input_data, rnd)
            ELSE IF IntOverflows(input_data.previousCases)
                       \/ run.predict.raises
            THEN Raise("Exception", NoOutput)
            ELSE LET row == run.predict.row
                 IN Return(MLPredictionOutput(
                        PyMin(Whole(100), PyMax(Whole(0),
                            IF Len(row) > 0 THEN row[1] ELSE Whole(50))),
                        PyMax(Whole(0),
                            IF Len(row) > 1 THEN row[2] ELSE Whole(25)),
                        PyMin(Whole(100), PyMax(Whole(0),
                            IF Len(row) > 2 THEN row[3] ELSE Whole(85))),
                        FEATURE_IMPORTANCE))
    IN IF attempt.raised
       THEN main_simulate_prediction(input_data, rnd)
       ELSE attempt

\* main-minimal.py predict_outbreak: the simulation whether or not a model
\* is loaded
minimal_predict_outbreak(input_data) ==
    LET attempt == minimal_simulate_prediction(input_data, hashseed)
    IN IF attempt.raised
       THEN minimal_simulate_prediction(input_data, hashseed)
       ELSE attempt

----------------------------------------------------------------------------
(* optimize *)

OptimizationInput(b, n, d, e, w, f) ==
    [beds |-> b, nurses |-> n, doctors |-> d, equipment |-> e,
     currentWaitTimes |-> w, patientFlow |-> f]

\* the request of test_optimization
ExampleOptimization ==
    OptimizationInput(85, 120, 35, 90, <<780, 450, 620, 350, 410>>,
                      <<1200, 800, 900, 1500, 600>>)

\* the resource counts requests are drawn from: the test request, none, at
\* the ceilings, above the ceilings, just below them, and negative counts
ResourceSamples ==
    { <<85, 120, 35, 90>>, <<0, 0, 0, 0>>, <<100, 150, 50, 100>>,
      <<120, 200, 60, 130>>, <<97, 145, 49, 98>>, <<0 - 10, 0 - 20, 0 - 5, 0 - 4>> }

\* the time series requests are drawn from, in tenths: the test request, one
\* reading, two readings, and no reading at all
SeriesSamples == { <<780, 450, 620, 350, 410>>, <<2000>>, <<100, 200>>, << >> }

OptimizationInputs ==
    { OptimizationInput(r[1], r[2], r[3], r[4], w, <<1200, 800, 900, 1500, 600>>) :
        r \in ResourceSamples, w \in SeriesSamples }

\* OptimizationInput of the data model: non-negative resource counts
ValidOptimizationInput(i) ==
    i.beds >= 0 /\ i.nurses >= 0 /\ i.doctors >= 0 /\ i.equipment >= 0

Allocation(b, n, d, e) ==
    [beds |-> b, nurses |-> n, doctors |-> d, equipment |-> e]

Improvements(w, b, s, p) ==
    [waitTimeReduction |-> w, bedUtilization |-> b, staffEfficiency |-> s,
     patientSatisfaction |-> p]

RECOMMENDATIONS ==
    << "Redistribute 12 beds from General Ward to ICU",
       "Schedule additional nursing staff during peak hours (2-6 PM)",
       "Relocate portable equipment to Emergency Department" >>

OptimizationOutput(alloc, impr, recs) ==
    [optimizedAllocation |-> alloc, expectedImprovements |-> impr,
     recommendations |-> recs]

NoOptimization ==
    OptimizationOutput(Allocation(0, 0, 0, 0), Improvements(NaN, NaN, NaN, NaN),
                       << >>)

\* Python min and max of two ints
IntMin(a, b) == IF b < a THEN b ELSE a

IntMax(a, b) == IF b > a THEN b ELSE a

\* int(x) of a float that is a number: truncation toward zero
IntCast(x) == IF x.v >= 0 THEN x.v \div U ELSE 0 - ((0 - x.v) \div U)

RECURSIVE SumSeq(_)
SumSeq(q) == IF q = << >> THEN 0 ELSE Head(q) + SumSeq(Tail(q))

\* np.mean of a list of floats in tenths: NaN, with a warning, of the empty list
NpMean(q) == IF q = << >> THEN NaN ELSE Num((SumSeq(q) * U) \div (Len(q) * T))

\* lstm_simulate_optimization taking the doctors' increment away
lstm_simulate_optimization_decrement(input_data) ==
    Return(OptimizationOutput(
        Allocation(IntMin(100, input_data.beds + 5),
                   IntMin(150, input_data.nurses + 10),
                   IntMin(50, input_data.doctors - 2),
                   IntMin(100, input_data.equipment + 3)),
        Improvements(Whole(28), Whole(92), Whole(15), Whole(22)),
        RECOMMENDATIONS))

\* lstm_simulate_optimization without the cap on beds
lstm_simulate_optimization_uncapped(input_data) ==
    Return(OptimizationOutput(
        Allocation(input_data.beds + 5,
                   IntMin(150, input_data.nurses + 10),
                   IntMin(50, input_data.doctors + 2),
                   IntMin(100, input_data.equipment + 3)),
        Improvements(Whole(28), Whole(92), Whole(15), Whole(22)),
        RECOMMENDATIONS))

\* main-lstm.py simulate_optimization
lstm_simulate_optimization(input_data) ==
    Return(OptimizationOutput(
        Allocation(IntMin(100, input_data.beds + 5),
                   IntMin(150, input_data.nurses + 10),
                   IntMin(50, input_data.doctors + 2),
                   IntMin(100, input_data.equipment + 3)),
        Improvements(Whole(28), Whole(92), Whole(15), Whole(22)),
        RECOMMENDATIONS))

\* main.py simulate_optimization
main_simulate_optimization(input_data) ==
    Return(OptimizationOutput(
        Allocation(IntMin(100, input_data.beds + 5),
                   IntMin(150, input_data.nurses + 10),
                   IntMin(50, input_data.doctors + 2),
                   IntMin(100, input_data.equipment + 3)),
        Improvements(Whole(28), Whole(92), Whole(15), Whole(22)),
        RECOMMENDATIONS))

\* main-minimal.py simulate_optimization
minimal_simulate_optimization(input_data) ==
    Return(OptimizationOutput(
        Allocation(IntMin(100, input_data.beds + 5),
                   IntMin(150, input_data.nurses + 10),
                   IntMin(50, input_data.doctors + 2),
                   IntMin(100, input_data.equipment + 3)),
        Improvements(Whole(28), Whole(92), Whole(15), Whole(22)),
        RECOMMENDATIONS))

\* the outcomes of one invocation of the optimization model: it raises, or it
\* returns an array whose row is optimization[0] (ndim = 2), or a vector of
\* scalars (ndim = 1)
OptimizationRows ==
    { << Whole(90), Whole(130) >>,
      << Num(1814000), Num(2604000), Num(758000), Num(1870000) >>,
      << Num(0 - 70000), Whole(500), Whole(51), Num(2019800) >>,
      << NaN, Whole(1), Whole(1), Whole(1) >>,
      << Whole(95), Whole(140), Whole(45), Whole(99),
         Num(610000), Whole(88) >>,
      << Whole(95), Whole(140), Whole(45), Whole(99),
         Num(610000), Whole(88), Whole(12), Whole(0 - 20) >> }

OptimizationOutcomes ==
    {Raises, Array(1, << Whole(90) >>)}
    \cup { Array(2, r) : r \in OptimizationRows }

OptimizationRuns == { [transform |-> "none", predict |-> o] : o \in OptimizationOutcomes }

\* ModelInput handing over the totals of the two series
ModelInput_totals(input_data) ==
    << Whole(input_data.beds), Whole(input_data.nurses),
       Whole(input_data.doctors), Whole(input_data.equipment),
       Num((SumSeq(input_data.currentWaitTimes) * U) \div T),
       Num((SumSeq(input_data.patientFlow) * U) \div T) >>

\* the vector the optimization model is fed
ModelInput(input_data) ==
    << Whole(input_data.beds), Whole(input_data.nurses),
       Whole(input_data.doctors), Whole(input_data.equipment),
       NpMean(input_data.currentWaitTimes), NpMean(input_data.patientFlow) >>

\* ModelOptimization without the floor of 0
ModelOptimization_unfloored(run) ==
    IF run.predict.raises
    THEN Raise("Exception", NoOptimization)
    ELSE LET row == run.predict.row
         IN IF run.predict.ndim # 2 \/ Len(row) < 4
            THEN Raise("IndexError", NoOptimization)
            ELSE IF \E k \in 1..4 : row[k].nan
            THEN Raise("ValueError", NoOptimization)
            ELSE Return(OptimizationOutput(
                    Allocation(
                        IntMin(100, IntCast(row[1])),
                        IntMin(150, IntCast(row[2])),
                        IntMin(50, IntCast(row[3])),
                        IntMin(100, IntCast(row[4]))),
                    Improvements(
                        IF Len(row) > 4 THEN row[5] ELSE Whole(28),
                        IF Len(row) > 5 THEN row[6] ELSE Whole(92),
                        IF Len(row) > 6 THEN row[7] ELSE Whole(15),
                        IF Len(row) > 7 THEN row[8] ELSE Whole(22)),
                    RECOMMENDATIONS))

\* the model path of optimize_resources in main-lstm.py and main.py, from
\* the model's invocation to the returned output
ModelOptimization(run) ==
    IF run.predict.raises
    THEN Raise("Exception", NoOptimization)
    ELSE LET row == run.predict.row
         IN \* optimization[0][k] of a scalar, or beyond the row's end
            IF run.predict.ndim # 2 \/ Len(row) < 4
            THEN Raise("IndexError", NoOptimization)
            \* int(nan)
            ELSE IF \E k \in 1..4 : row[k].nan
            THEN Raise("ValueError", NoOptimization)
            ELSE Return(OptimizationOutput(
                    Allocation(
                        IntMin(100, IntMax(0, IntCast(row[1]))),
                        IntMin(150, IntMax(0, IntCast(row[2]))),
                        IntMin(50, IntMax(0, IntCast(row[3]))),
                        IntMin(100, IntMax(0, IntCast(row[4])))),
                    Improvements(
                        IF Len(row) > 4 THEN row[5] ELSE Whole(28),
                        IF Len(row) > 5 THEN row[6] ELSE Whole(92),
                        IF Len(row) > 6 THEN row[7] ELSE Whole(15),
                        IF Len(row) > 7 THEN row[8] ELSE Whole(22)),
                    RECOMMENDATIONS))

\* lstm_optimize_resources whose handler lets the model path's exception out
lstm_optimize_resources_reraise(input_data, run) ==
    IF optimization_model # None /\ SKLEARN_AVAILABLE
    THEN ModelOptimization(run)
    ELSE lstm_simulate_optimization(input_data)

\* main-lstm.py optimize_resources
lstm_optimize_resources(input_data, run) ==
    LET attempt == IF optimization_model # None /\ SKLEARN_AVAILABLE
                   THEN ModelOptimization(run)
                   ELSE lstm_simulate_optimization(input_data)
    IN IF attempt.raised
       THEN lstm_simulate_optimization(input_data)
       ELSE attempt

\* main.py optimize_resources
main_optimize_resources(input_data, run) ==
    LET attempt == IF optimization_model = None
                   THEN main_simulate_optimization(input_data)
                   ELSE ModelOptimization(run)
    IN IF attempt.raised
       THEN main_simulate_optimization(input_data)
       ELSE attempt

\* main-minimal.py optimize_resources
minimal_optimize_resources(input_data) ==
    minimal_simulate_optimization(input_data)

\* working_optimize_resources without the floor of 15 under the wait time
\* reduction
working_optimize_resources_unfloored(input_data) ==
    IF input_data.currentWaitTimes = << >>
    THEN Raise("HTTPException: Optimization failed", NoOptimization)
    ELSE LET avg_wait_time ==
                 Num((SumSeq(input_data.currentWaitTimes) * U)
                        \div (Len(input_data.currentWaitTimes) * T))
             wait_reduction ==
                 PyMin(Whole(40), Num((avg_wait_time.v * 3) \div 10))
         IN Return(OptimizationOutput(
                Allocation(IntMin(100, input_data.beds + 5),
                           IntMin(150, input_data.nurses + 10),
                           IntMin(50, input_data.doctors + 2),
                           IntMin(100, input_data.equipment + 3)),
                Improvements(
                    wait_reduction,
                    Whole(IntMin(95, input_data.beds + 10)),
                    PyMin(Whole(25),
                        Num(((input_data.nurses + input_data.doctors) * U)
                              \div 10)),
                    PyMin(Whole(30), Num((wait_reduction.v * 8) \div 10))),
                RECOMMENDATIONS))

\* main-working.py optimize_resources: the richer simulation, any exception
\* turned into HTTPException(500)
working_optimize_resources(input_data) ==
    IF input_data.currentWaitTimes = << >>
    THEN Raise("HTTPException: Optimization failed", NoOptimization)
    ELSE LET avg_wait_time ==
                 Num((SumSeq(input_data.currentWaitTimes) * U)
                        \div (Len(input_data.currentWaitTimes) * T))
             wait_reduction ==
                 PyMin(Whole(40), PyMax(Whole(15),
                     Num((avg_wait_time.v * 3) \div 10)))
         IN Return(OptimizationOutput(
                Allocation(IntMin(100, input_data.beds + 5),
                           IntMin(150, input_data.nurses + 10),
                           IntMin(50, input_data.doctors + 2),
                           IntMin(100, input_data.equipment + 3)),
                Improvements(
                    wait_reduction,
                    Whole(IntMin(95, input_data.beds + 10)),
                    PyMin(Whole(25),
                        Num(((input_data.nurses + input_data.doctors) * U)
                              \div 10)),
                    PyMin(Whole(30), Num((wait_reduction.v * 8) \div 10))),
                RECOMMENDATIONS))

----------------------------------------------------------------------------
(* predictBatch *)

\* predict_outbreak of the running application
predict_outbreak(input_data, run, rnd) ==
    CASE app = "lstm" -> lstm_predict_outbreak(input_data, run)
      [] app = "main" -> main_predict_outbreak(input_data, run, rnd)
      [] app = "minimal" -> minimal_predict_outbreak(input_data)
      [] OTHER -> working_predict_outbreak(input_data)

\* the loop of predict_batch from item k on, predictions the list so far; the
\* first item whose predict_outbreak raises ends it
RECURSIVE BatchLoop(_, _, _, _, _)
BatchLoop(inputs, runs, rnds, k, predictions) ==
    IF k > Len(inputs)
    THEN Return(predictions)
    ELSE LET prediction == predict_outbreak(inputs[k], runs[k], rnds[k])
         IN IF prediction.raised
            THEN Raise("HTTPException: Batch prediction failed", << >>)
            ELSE BatchLoop(inputs, runs, rnds, k + 1,
                           Append(predictions, prediction.value))

\* the loop putting each prediction in front of the list
RECURSIVE BatchLoopPrepend(_, _, _, _, _)
BatchLoopPrepend(inputs, runs, rnds, k, predictions) ==
    IF k > Len(inputs)
    THEN Return(predictions)
    ELSE LET prediction == predict_outbreak(inputs[k], runs[k], rnds[k])
         IN IF prediction.raised
            THEN Raise("HTTPException: Batch prediction failed", << >>)
            ELSE BatchLoopPrepend(inputs, runs, rnds, k + 1,
                                  <<prediction.value>> \o predictions)

predict_batch_prepend(inputs, runs, rnds) ==
    BatchLoopPrepend(inputs, runs, rnds, 1, << >>)

\* the loop returning what it has when an item fails
RECURSIVE BatchLoopPartial(_, _, _, _, _)
BatchLoopPartial(inputs, runs, rnds, k, predictions) ==
    IF k > Len(inputs)
    THEN Return(predictions)
    ELSE LET prediction == predict_outbreak(inputs[k], runs[k], rnds[k])
         IN IF prediction.raised
            THEN Return(predictions)
            ELSE BatchLoopPartial(inputs, runs, rnds, k + 1,
                                  Append(predictions, prediction.value))

predict_batch_partial(inputs, runs, rnds) ==
    BatchLoopPartial(inputs, runs, rnds, 1, << >>)

\* predict_batch, the same in the four applications
predict_batch(inputs, runs, rnds) == BatchLoop(inputs, runs, rnds, 1, << >>)

\* optimize_resources of the running application
optimize_resources(input_data, run) ==
    CASE app = "lstm" -> lstm_optimize_resources(input_data, run)
      [] app = "main" -> main_optimize_resources(input_data, run)
      [] app = "minimal" -> minimal_optimize_resources(input_data)
      [] OTHER -> working_optimize_resources(input_data)

----------------------------------------------------------------------------
(* The process *)

Apps == {"lstm", "main", "minimal", "working"}

ModelInfo(loaded, type) ==
    [isLoaded |-> loaded, version |-> "1.0.0", accuracy |-> 893,
     lastTraining |-> "2024-01-01", modelType |-> type]

\* model_info as the module defines it; main.py and main-minimal.py have no
\* modelType
InitialModelInfo(a) ==
    CASE a = "lstm" -> ModelInfo(FALSE, "LSTM")
      [] a = "working" -> ModelInfo(TRUE, "Simulation (LSTM Ready)")
      [] OTHER -> ModelInfo(FALSE, None)

\* a response: the operation, its request, what the artifacts did (run), what
\* the handler handed to the model (fed) and what the handler returned
NoReply ==
    [op |-> "none", req |-> << >>, run |-> << >>, fed |-> << >>,
     result |-> Return(<< >>)]

Init ==
    /\ app \in Apps
    /\ phase = "startup"
    /\ TENSORFLOW_AVAILABLE \in (IF app = "lstm" THEN BOOLEAN ELSE {FALSE})
    /\ SKLEARN_AVAILABLE \in (IF app = "lstm" THEN BOOLEAN ELSE {TRUE})
    /\ lstm_model = None
    /\ scaler = None
    /\ outbreak_model = None
    /\ optimization_model = None
    /\ model_info = InitialModelInfo(app)
    /\ hashseed \in 1..MaxSeed
    /\ reply = NoReply

\* what loading one artifact file does: it loads, the file is missing, or
\* the load raises (incompatible format, missing dependency)
FileOutcomes == {"ok", "missing", "bad"}

\* load_lstm_model keeping the handle of a file that does not load
load_lstm_model_partial(file) ==
    IF TENSORFLOW_AVAILABLE /\ file # "missing" THEN "keras.Model" ELSE None

\* main-lstm.py load_lstm_model: the handle after the call
load_lstm_model(file) ==
    IF TENSORFLOW_AVAILABLE /\ file = "ok" THEN "keras.Model" ELSE None

\* main-lstm.py load_scaler: the handle after the call
load_scaler(file) ==
    IF SKLEARN_AVAILABLE /\ file = "ok" THEN "StandardScaler" ELSE None

\* main-lstm.py startup_event, the optimization model: loaded when the file
\* exists, scikit-learn is there and joblib.load does not raise
load_optimization_model(file) ==
    IF file = "ok" /\ SKLEARN_AVAILABLE THEN "sklearn.Model" ELSE None

\* startup_event of main-lstm.py recording the scaler's load as the model type
startup_model_info_scaler(lstm_loaded, scaler_loaded) ==
    ModelInfo(lstm_loaded \/ scaler_loaded,
              IF scaler_loaded THEN "LSTM" ELSE "Simulation")

\* main-lstm.py startup_event: what it records in model_info
startup_model_info(lstm_loaded, scaler_loaded) ==
    ModelInfo(lstm_loaded \/ scaler_loaded,
              IF lstm_loaded THEN "LSTM" ELSE "Simulation")

\* main-lstm.py startup_event, for one outcome of each artifact's file
LstmStartupWith(lstm_file, scaler_file, optimization_file) ==
    /\ app = "lstm"
    /\ phase = "startup"
    /\ LET lstm_loaded == load_lstm_model(lstm_file) # None
           scaler_loaded == load_scaler(scaler_file) # None
       IN /\ lstm_model' = load_lstm_model(lstm_file)
          /\ scaler' = load_scaler(scaler_file)
          /\ optimization_model' = load_optimization_model(optimization_file)
          /\ model_info' = startup_model_info(lstm_loaded, scaler_loaded)
    /\ phase' = "serving"
    /\ UNCHANGED <<app, TENSORFLOW_AVAILABLE, SKLEARN_AVAILABLE,
                   outbreak_model, hashseed, reply>>

LstmStartup ==
    \E lstm_file \in FileOutcomes, scaler_file \in FileOutcomes,
       optimization_file \in FileOutcomes :
       LstmStartupWith(lstm_file, scaler_file, optimization_file)

\* main.py startup_event, for one outcome of each artifact's file: a load
\* that raises ends the loading and records isLoaded = False
MainStartupWith(outbreak_file, optimization_file) ==
    /\ app = "main"
    /\ phase = "startup"
    /\ outbreak_model' =
           IF outbreak_file = "ok" THEN "sklearn.Model" ELSE None
    /\ optimization_model' =
           IF outbreak_file # "bad" /\ optimization_file = "ok"
           THEN "sklearn.Model" ELSE None
    /\ model_info' =
           IF outbreak_file = "bad" \/ optimization_file = "bad"
           THEN ModelInfo(FALSE, None)
           ELSE ModelInfo(outbreak_file = "ok" \/ optimization_file = "ok",
                          None)
    /\ phase' = "serving"
    /\ UNCHANGED <<app, TENSORFLOW_AVAILABLE, SKLEARN_AVAILABLE, lstm_model,
                   scaler, hashseed, reply>>

MainStartup ==
    \E outbreak_file \in FileOutcomes, optimization_file \in FileOutcomes :
       MainStartupWith(outbreak_file, optimization_file)

\* main-minimal.py startup_event: each load in its own try
MinimalStartup ==
    /\ app = "minimal"
    /\ phase = "startup"
    /\ \E outbreak_file \in FileOutcomes, optimization_file \in FileOutcomes :
          /\ outbreak_model' =
                 IF outbreak_file = "ok" THEN "sklearn.Model" ELSE None
          /\ optimization_model' =
                 IF optimization_file = "ok" THEN "sklearn.Model" ELSE None
          /\ model_info' =
                 ModelInfo(outbreak_file = "ok" \/ optimization_file = "ok",
                           None)
    /\ phase' = "serving"
    /\ UNCHANGED <<app, TENSORFLOW_AVAILABLE, SKLEARN_AVAILABLE, lstm_model,
                   scaler, hashseed, reply>>

\* main-working.py startup_event: it only looks whether the two files exist,
\* and the scaler's file is logged and nothing else
WorkingStartupWith(lstm_exists, scaler_exists) ==
    /\ app = "working"
    /\ phase = "startup"
    /\ model_info' =
           IF lstm_exists
           THEN ModelInfo(model_info.isLoaded, "LSTM Model Available")
           ELSE model_info
    /\ phase' = "serving"
    /\ UNCHANGED <<app, TENSORFLOW_AVAILABLE, SKLEARN_AVAILABLE, lstm_model,
                   scaler, outbreak_model, optimization_model, hashseed, reply>>

WorkingStartup ==
    \E lstm_exists \in BOOLEAN, scaler_exists \in BOOLEAN :
       WorkingStartupWith(lstm_exists, scaler_exists)

\* what predict_outbreak hands to the predictive model: the sequence of
\* preprocess_input in main-lstm.py, the (1, 6) model_input in main.py,
\* nothing when the request does not reach the model
PredictModelFed(input_data, run) ==
    CASE app = "lstm" /\ lstm_model # None /\ TENSORFLOW_AVAILABLE ->
             LET sequence == preprocess_input(input_data, scaler, run, 7)
             IN IF sequence.raised THEN << >> ELSE sequence.value
      [] app = "main" /\ outbreak_model # None ->
             IF IntOverflows(input_data.previousCases)
             THEN << >>
             ELSE << Features(input_data) >>
      [] OTHER -> << >>

\* what the items of a batch hand to the model, up to the item that raises
BatchModelFed(inputs, runs, rnds) ==
    [k \in 1..Len(inputs) |->
        IF \E j \in 1..(k - 1) :
              predict_outbreak(inputs[j], runs[j], rnds[j]).raised
        THEN << >>
        ELSE PredictModelFed(inputs[k], runs[k])]

\* what optimize_resources hands to the optimization model: model_input, or
\* nothing when the request does not reach the model
OptimizeModelFed(input_data) ==
    IF \/ app = "lstm" /\ optimization_model # None /\ SKLEARN_AVAILABLE
       \/ app = "main" /\ optimization_model # None
    THEN ModelInput(input_data)
    ELSE << >>

\* the invocations of the predictive model a request may meet: none when the
\* request does not reach the model
PredictRuns ==
    IF app = "lstm" /\ lstm_model # None /\ TENSORFLOW_AVAILABLE
    THEN ModelRuns(scaler)
    ELSE IF app = "main" /\ outbreak_model # None
    THEN { r \in ModelRuns(None) : r.predict.raises \/ r.predict.ndim = 2 }
    ELSE {NoRun}

\* the draws of np.random.random(), made by main.py alone
PredictRandoms == IF app = "main" THEN Randoms ELSE {0}

\* the invocations of the optimization model a request may meet
OptimizeRuns ==
    IF app = "lstm" /\ optimization_model # None /\ SKLEARN_AVAILABLE
    THEN OptimizationRuns
    ELSE IF app = "main" /\ optimization_model # None
    THEN OptimizationRuns
    ELSE {NoRun}

\* a request handler that drops the predictive model's handle
Frame_unload ==
    /\ lstm_model' = None
    /\ UNCHANGED <<app, phase, TENSORFLOW_AVAILABLE, SKLEARN_AVAILABLE,
                   scaler, outbreak_model, optimization_model, model_info,
                   hashseed>>

\* a request handler after which str hashes are seeded anew
Frame_reseed ==
    /\ hashseed' \in 1..MaxSeed
    /\ UNCHANGED <<app, phase, TENSORFLOW_AVAILABLE, SKLEARN_AVAILABLE,
                   lstm_model, scaler, outbreak_model, optimization_model,
                   model_info>>

\* what a request handler leaves as it is: everything but its response
Frame ==
    UNCHANGED <<app, phase, TENSORFLOW_AVAILABLE, SKLEARN_AVAILABLE,
                lstm_model, scaler, outbreak_model, optimization_model,
                model_info, hashseed>>

\* the server handles one request at a time: reply is the response the
\* handler returned, until it is sent
Idle == phase = "serving" /\ reply.op = "none"

\* POST /predict
Predict ==
    /\ Idle
    /\ \E input_data \in PredictionInputs, run \in PredictRuns,
          rnd \in PredictRandoms :
          reply' = [op |-> "predict", req |-> input_data, run |-> run,
                    fed |-> PredictModelFed(input_data, run),
                    result |-> predict_outbreak(input_data, run, rnd)]
    /\ Frame

\* the requests of a batch, and the model invocations its items meet
BatchInputs ==
    { ExampleInput, SecondInput,
      MLPredictionInput(255, 600, 15000, HugeCases, 450, 6, TS1) }

BatchRuns ==
    { r \in PredictRuns :
        \/ r.transform # "ok"
        \/ r.predict.raises
        \/ r.predict.row \in { << Whole(150), Whole(2500), Whole(200) >>,
                               << Whole(0 - 5), Whole(0 - 3) >> } }

\* POST /predict/batch
PredictBatch ==
    /\ Idle
    /\ \E n \in 0..MaxBatch :
          \E inputs \in [1..n -> BatchInputs], runs \in [1..n -> BatchRuns],
             rnds \in [1..n -> PredictRandoms] :
             reply' = [op |-> "batch", req |-> inputs, run |-> runs,
                       fed |-> BatchModelFed(inputs, runs, rnds),
                       result |-> predict_batch(inputs, runs, rnds)]
    /\ Frame

\* POST /optimize
Optimize ==
    /\ Idle
    /\ \E input_data \in OptimizationInputs, run \in OptimizeRuns :
          reply' = [op |-> "optimize", req |-> input_data, run |-> run,
                    fed |-> OptimizeModelFed(input_data),
                    result |-> optimize_resources(input_data, run)]
    /\ Frame

\* GET /model/info
GetModelInfo ==
    /\ Idle
    /\ reply' = [op |-> "info", req |-> << >>, run |-> << >>, fed |-> << >>,
                 result |-> Return(model_info)]
    /\ Frame

\* health_check of the four files; lstm_ready and scaler_ready are what
\* os.path.exists says when main-working.py handles the request
health_check(lstm_ready, scaler_ready) ==
    CASE app = "lstm" ->
             [status |-> "healthy", models_loaded |-> model_info.isLoaded,
              tensorflow_available |-> TENSORFLOW_AVAILABLE,
              model_type |-> model_info.modelType]
      [] app = "working" ->
             [status |-> "healthy", models_loaded |-> model_info.isLoaded,
              model_type |-> model_info.modelType,
              lstm_ready |-> lstm_ready, scaler_ready |-> scaler_ready]
      [] OTHER ->
             [status |-> "healthy", models_loaded |-> model_info.isLoaded]

\* GET /health
HealthCheck ==
    /\ Idle
    /\ \E lstm_ready \in (IF app = "working" THEN BOOLEAN ELSE {FALSE}),
          scaler_ready \in (IF app = "working" THEN BOOLEAN ELSE {FALSE}) :
          reply' = [op |-> "health", req |-> << >>, run |-> << >>,
                    fed |-> << >>,
                    result |-> Return(health_check(lstm_ready, scaler_ready))]
    /\ Frame

\* the caller repeats the /predict request it was just answered
PredictAgain ==
    /\ phase = "serving"
    /\ reply.op = "predict"
    /\ \E run \in PredictRuns, rnd \in PredictRandoms :
          reply' = [op |-> "predict", req |-> reply.req, run |-> run,
                    fed |-> PredictModelFed(reply.req, run),
                    result |-> predict_outbreak(reply.req, run, rnd)]
    /\ Frame

\* the response is sent to the caller
Send ==
    /\ phase = "serving"
    /\ reply.op # "none"
    /\ reply' = NoReply
    /\ Frame

Next ==
    \/ LstmStartup
    \/ MainStartup
    \/ MinimalStartup
    \/ WorkingStartup
    \/ Predict
    \/ PredictBatch
    \/ Optimize
    \/ GetModelInfo
    \/ HealthCheck
    \/ PredictAgain
    \/ Send

Spec == Init /\ [][Next]_vars

----------------------------------------------------------------------------
(* Properties *)

\* the reply is a /predict response of application a
PredictReplyOf(a) == app = a /\ reply.op = "predict"

\* the bounds of a PredictionOutput
WithinPredictionBounds(out) ==
    /\ InRange(out.riskLevel, 0, 100)
    /\ AtLeast(out.predictedCases, 0)
    /\ InRange(out.confidence, 0, 100)

\* main-lstm.py sends predict down the model path
LstmModelPath == lstm_model # None /\ TENSORFLOW_AVAILABLE

C2_FallbackIsSimulation ==
    (/\ PredictReplyOf("lstm")
     /\ LstmModelPath
     /\ predict_with_lstm(reply.req, lstm_model, scaler, reply.run).raised)
        => /\ reply.result = lstm_simulate_prediction(reply.req, hashseed)
           /\ ValidPredictionInput(reply.req) => ~reply.result.raised

\* the model returned a (1, 3) array, whose row float() refuses, and predict
\* answered with the simulation
C2_Witness ==
    /\ PredictReplyOf("lstm")
    /\ LstmModelPath
    /\ reply.run.predict = Array(2, << Whole(150), Whole(2500), Whole(200) >>)
    /\ reply.req = ExampleInput
    /\ ~reply.result.raised
    /\ reply.result.value.riskLevel = Num(1575000)

\* the risk and the cases of the documented simulation, in units of 1 / U
DocumentedRisk(i) ==
    LET sum == 600000 + (i.temperature - 200) * 1000
                      + (i.humidity - 500) * 600
                      + i.previousCases * 16000
                      + i.wastewaterLevels * 1200
    IN Num(IF sum < 0 THEN 0 ELSE IF sum > 2000000 THEN 2000000 ELSE sum)

DocumentedCases(i) ==
    LET sum == i.previousCases * 22000 + i.populationDensity
                  + (i.socialMediaSentiment - 5) * 20000
    IN Num(IF sum < 0 THEN 0 ELSE sum)

\* the reply is a /predict response computed with no predictive model loaded
NoPredictiveModel ==
    /\ reply.op = "predict"
    /\ ValidPredictionInput(reply.req)
    /\ app = "lstm" => lstm_model = None
    /\ app \in {"main", "minimal"} => outbreak_model = None

\* C3 as stated: with no predictive model loaded, predict of main-lstm.py,
\* main.py and main-working.py returns the documented riskLevel and
\* predictedCases.
C3_Original ==
    (NoPredictiveModel /\ app \in {"lstm", "main", "working"})
        => /\ reply.result.value.riskLevel = DocumentedRisk(reply.req)
           /\ reply.result.value.predictedCases = DocumentedCases(reply.req)

\* C3 amended: the documented riskLevel and predictedCases are those of
\* simulate_prediction in main-lstm.py, main.py and main-minimal.py (78.75 and
\* 23.75 for the example); main-working.py adds (socialMediaSentiment - 0.5) * 20
\* to the risk sum and (temperature - 20) * 0.2 to the cases sum (80.75 and
\* 24.85 for the example).
C3_SimulationFormula ==
    /\ (NoPredictiveModel /\ app \in {"lstm", "main", "minimal"})
          => /\ ~reply.result.raised
             /\ reply.result.value.riskLevel = DocumentedRisk(reply.req)
             /\ reply.result.value.predictedCases = DocumentedCases(reply.req)
             /\ reply.req = ExampleInput
                   => /\ reply.result.value.riskLevel = Num(1575000)
                      /\ reply.result.value.predictedCases = Num(475000)
    /\ (NoPredictiveModel /\ app = "working")
          => /\ ~reply.result.raised
             /\ reply.result.value.riskLevel =
                  LET sum == 600000 + (reply.req.temperature - 200) * 1000
                                + (reply.req.humidity - 500) * 600
                                + reply.req.previousCases * 16000
                                + reply.req.wastewaterLevels * 1200
                                + (reply.req.socialMediaSentiment - 5) * 40000
                  IN Num(IF sum < 0 THEN 0
                         ELSE IF sum > 2000000 THEN 2000000 ELSE sum)
             /\ reply.result.value.predictedCases =
                  LET sum == reply.req.previousCases * 22000
                                + reply.req.populationDensity
                                + (reply.req.socialMediaSentiment - 5) * 20000
                                + (reply.req.temperature - 200) * 400
                  IN Num(IF sum < 0 THEN 0 ELSE sum)
             /\ reply.req = ExampleInput
                   => /\ reply.result.value.riskLevel = Num(1615000)
                      /\ reply.result.value.predictedCases = Num(497000)

\* main-lstm.py answered the example with no model loaded
C3_Witness ==
    /\ PredictReplyOf("lstm")
    /\ lstm_model = None
    /\ reply.req = ExampleInput
    /\ reply.result.value.riskLevel = Num(1575000)
    /\ reply.result.value.predictedCases = Num(475000)

\* C4: in main.py two predict calls with the same input, both served by the
\* simulation, return the same riskLevel, predictedCases, confidence and
\* featureImportance.
C4_MainSimulationPure ==
    [][(/\ PredictReplyOf("main")
        /\ outbreak_model = None
        /\ reply'.op = "predict"
        /\ reply'.req = reply.req)
          => reply'.result = reply.result]_vars

\* C5: in main-lstm.py and main-minimal.py two predict calls with the same
\* input, both served by the simulation, return the same output, and the
\* confidence is the same for every input with the same timestamp.
C5_SimulationPure ==
    /\ [][(/\ app \in {"lstm", "minimal"}
           /\ reply.op = "predict"
           /\ app = "lstm" => lstm_model = None
           /\ reply'.op = "predict"
           /\ reply'.req = reply.req)
             => reply'.result = reply.result]_vars
    /\ [](\A other \in PredictionInputs :
            (/\ app \in {"lstm", "minimal"}
             /\ reply.op = "predict"
             /\ app = "lstm" => lstm_model = None
             /\ ~reply.result.raised
             /\ ValidPredictionInput(other)
             /\ other.timestamp = reply.req.timestamp)
               => predict_outbreak(other, NoRun, 0).value.confidence
                     = reply.result.value.confidence)

\* main-lstm.py answered a valid request by the simulation
C5_Witness ==
    /\ PredictReplyOf("lstm")
    /\ lstm_model = None
    /\ reply.req = SecondInput
    /\ ~reply.result.raised
    /\ InRange(reply.result.value.confidence, 70, 95)

\* every request of the batch is a valid PredictionInput
ValidBatch(inputs) ==
    \A k \in 1..Len(inputs) : ValidPredictionInput(inputs[k])

\* C6: predictBatch on N valid inputs, N >= 0, returns N predictions, the
\* k-th being what predict returns for the k-th input and within the bounds
\* of a single predict.
C6_BatchInOrder ==
    (reply.op = "batch" /\ ValidBatch(reply.req))
        => /\ ~reply.result.raised
           /\ Len(reply.result.value) = Len(reply.req)
           /\ \A k \in 1..Len(reply.req) :
                 /\ \E rnd \in PredictRandoms :
                       reply.result.value[k] =
                           predict_outbreak(reply.req[k], reply.run[k],
                                            rnd).value
                 /\ WithinPredictionBounds(reply.result.value[k])

\* a batch of two different requests was answered with two different
\* predictions
C6_Witness ==
    /\ reply.op = "batch"
    /\ Len(reply.req) = 2
    /\ reply.req[1] = ExampleInput
    /\ reply.req[2] = SecondInput
    /\ ~reply.result.raised
    /\ Len(reply.result.value) = 2
    /\ reply.result.value[1] # reply.result.value[2]

\* C7: when predict raises for an item of a batch, predictBatch returns one
\* batch-level failure and no prediction; no response holds fewer predictions
\* than inputs.
C7_BatchFailsWhole ==
    reply.op = "batch"
        => /\ (\E k \in 1..Len(reply.req) :
                   predict_outbreak(reply.req[k], reply.run[k], 0).raised)
                 => /\ reply.result.raised
                    /\ reply.result.exc = "HTTPException: Batch prediction failed"
                    /\ reply.result.value = << >>
           /\ ~reply.result.raised
                 => Len(reply.result.value) = Len(reply.req)

\* in main-working.py the second item of a batch raised after the first was
\* computed, and the batch failed
C7_Witness ==
    /\ app = "working"
    /\ reply.op = "batch"
    /\ Len(reply.req) = 2
    /\ ~working_predict_outbreak(reply.req[1]).raised
    /\ working_predict_outbreak(reply.req[2]).raised
    /\ reply.result.raised

\* the reply is an /optimize response to a valid OptimizationInput
ValidOptimizeReply == reply.op = "optimize" /\ ValidOptimizationInput(reply.req)

\* the ceilings of optimizedAllocation
WithinCeilings(alloc) ==
    /\ 0 <= alloc.beds /\ alloc.beds <= 100
    /\ 0 <= alloc.nurses /\ alloc.nurses <= 150
    /\ 0 <= alloc.doctors /\ alloc.doctors <= 50
    /\ 0 <= alloc.equipment /\ alloc.equipment <= 100

\* C8: optimize on a valid OptimizationInput returns an optimizedAllocation
\* within [0, ceiling] field by field, on the model path whatever the model
\* returned and on the simulation path.
C8_AllocationWithinCeilings ==
    ValidOptimizeReply
        => /\ app # "working" => ~reply.result.raised
           /\ ~reply.result.raised
                 => WithinCeilings(reply.result.value.optimizedAllocation)

\* the optimization model returned -3.5, 500, 51 and 100.99 and optimize
\* clamped them
C8_Witness ==
    /\ ValidOptimizeReply
    /\ app = "lstm"
    /\ optimization_model # None
    /\ reply.run.predict =
          Array(2, << Num(0 - 70000), Whole(500), Whole(51), Num(2019800) >>)
    /\ reply.result.value.optimizedAllocation = Allocation(0, 150, 50, 100)

\* the reply is an /optimize response of the simple-increment simulation
SimulatedOptimizeReply ==
    /\ reply.op = "optimize"
    /\ app # "working"
    /\ \/ app = "minimal"
       \/ app = "lstm" /\ ~(optimization_model # None /\ SKLEARN_AVAILABLE)
       \/ app = "main" /\ optimization_model = None
       \/ app \in {"lstm", "main"} /\ ModelOptimization(reply.run).raised

\* C9 as stated: on the simulation path every field of optimizedAllocation is
\* at least the field of the valid input.
C9_Original ==
    (SimulatedOptimizeReply /\ ValidOptimizationInput(reply.req))
        => /\ reply.result.value.optimizedAllocation.beds >= reply.req.beds
           /\ reply.result.value.optimizedAllocation.nurses >= reply.req.nurses
           /\ reply.result.value.optimizedAllocation.doctors >= reply.req.doctors
           /\ reply.result.value.optimizedAllocation.equipment
                 >= reply.req.equipment

\* C9 amended: on the simulation path a field of optimizedAllocation is at
\* least the field of the valid input when that input field does not exceed
\* its ceiling (beds 100, nurses 150, doctors 50, equipment 100); a field of
\* the input above its ceiling comes back as the ceiling, below the input.
C9_AtLeastInputUpToCeiling ==
    (SimulatedOptimizeReply /\ ValidOptimizationInput(reply.req))
        => LET alloc == reply.result.value.optimizedAllocation
               in == reply.req
           IN /\ in.beds <= 100 => alloc.beds >= in.beds
              /\ in.nurses <= 150 => alloc.nurses >= in.nurses
              /\ in.doctors <= 50 => alloc.doctors >= in.doctors
              /\ in.equipment <= 100 => alloc.equipment >= in.equipment
              /\ in.beds > 100 => alloc.beds = 100
              /\ in.nurses > 150 => alloc.nurses = 150
              /\ in.doctors > 50 => alloc.doctors = 50
              /\ in.equipment > 100 => alloc.equipment = 100

\* the simulation answered a request at the ceilings with the ceilings
C9_Witness ==
    /\ SimulatedOptimizeReply
    /\ app = "lstm"
    /\ reply.req.beds = 100 /\ reply.req.nurses = 150
    /\ reply.req.doctors = 50 /\ reply.req.equipment = 100
    /\ reply.result.value.optimizedAllocation = Allocation(100, 150, 50, 100)

\* C10: with no optimization model loaded optimize returns beds + 5 capped at
\* 100, nurses + 10 capped at 150, doctors + 2 capped at 50 and equipment + 3
\* capped at 100: 90, 130, 37 and 93 for 85, 120, 35 and 90.
C10_SimulatedAllocation ==
    (reply.op = "optimize" /\ optimization_model = None /\ app # "working")
        => /\ ~reply.result.raised
           /\ LET alloc == reply.result.value.optimizedAllocation
                  in == reply.req
              IN /\ alloc.beds =
                       IF in.beds + 5 > 100 THEN 100 ELSE in.beds + 5
                 /\ alloc.nurses =
                       IF in.nurses + 10 > 150 THEN 150 ELSE in.nurses + 10
                 /\ alloc.doctors =
                       IF in.doctors + 2 > 50 THEN 50 ELSE in.doctors + 2
                 /\ alloc.equipment =
                       IF in.equipment + 3 > 100 THEN 100 ELSE in.equipment + 3
                 /\ in = ExampleOptimization
                       => alloc = Allocation(90, 130, 37, 93)

\* main-lstm.py answered the request of test_optimization with no
\* optimization model loaded
C10_Witness ==
    /\ reply.op = "optimize"
    /\ app = "lstm"
    /\ optimization_model = None
    /\ reply.req = ExampleOptimization
    /\ reply.result.value.optimizedAllocation = Allocation(90, 130, 37, 93)

\* C11: optimize called with currentWaitTimes = [] never raises or reports
\* an error; it returns an output computed as if the mean wait time were 0:
\* the richer simulation of main-working.py returns, and the model path of
\* main-lstm.py and main.py feeds the optimization model a mean of 0.
C11_EmptyWaitTimesGuarded ==
    (reply.op = "optimize" /\ reply.req.currentWaitTimes = << >>)
        => /\ ~reply.result.raised
           /\ ModelInput(reply.req)[5] = Whole(0)

\* main-lstm.py has finished its startup
LstmServing == app = "lstm" /\ phase = "serving"

\* at least one of the three artifacts of main-lstm.py is loaded
AnyArtifactLoaded ==
    lstm_model # None \/ scaler # None \/ optimization_model # None

\* C12: in main-lstm.py, after startup, isLoaded, as model_info holds it and
\* as getModelInfo and the health query return it, is true if and only if at
\* least one of the predictive model, the scaler and the optimization model
\* loaded.
C12_IsLoadedIffAnyArtifact ==
    LstmServing =>
        /\ model_info.isLoaded <=> AnyArtifactLoaded
        /\ reply.op = "info" =>
               (reply.result.value.isLoaded <=> AnyArtifactLoaded)
        /\ reply.op = "health" =>
               (reply.result.value.models_loaded <=> AnyArtifactLoaded)

\* C13: in main.py, after startup in any outcome, isLoaded of getModelInfo
\* is false if and only if neither the outbreak model's handle nor the
\* optimization model's handle is present.
C13_MainIsLoadedIffHandle ==
    (app = "main" /\ phase = "serving") =>
        /\ ~model_info.isLoaded <=>
               (outbreak_model = None /\ optimization_model = None)
        /\ reply.op = "info" =>
               (~reply.result.value.isLoaded <=>
                    (outbreak_model = None /\ optimization_model = None))

\* C14: in main-working.py, a startup that finds neither the LSTM model's
\* file nor the scaler's file leaves isLoaded, which getModelInfo and the
\* health query return, false.
C14_WorkingNotLoadedWithoutFiles ==
    [][WorkingStartupWith(FALSE, FALSE) => ~model_info'.isLoaded]_vars

\* C15: in main-lstm.py, in every state in which a request can be served,
\* modelType is "LSTM" exactly when the predictive model's handle is
\* present, which is exactly when predict attempts the model path, and is
\* "Simulation" otherwise.
C15_ModelTypeIffModelHandle ==
    LstmServing =>
        /\ model_info.modelType = "LSTM" <=> lstm_model # None
        /\ model_info.modelType # "LSTM" => model_info.modelType = "Simulation"
        /\ model_info.modelType = "LSTM" <=>
               (lstm_model # None /\ TENSORFLOW_AVAILABLE)
        /\ reply.op = "predict" =>
               (model_info.modelType = "LSTM" <=> reply.run # NoRun)

\* C15 witness: a predict request met the model, with modelType "LSTM"
C15_Witness ==
    /\ LstmServing
    /\ reply.op = "predict"
    /\ reply.run # NoRun
    /\ lstm_model # None
    /\ model_info.modelType = "LSTM"

\* the handle a load must leave: absent unless the file loads and the
\* library that reads it is there
HandlePresent(file, library) == file = "ok" /\ library

\* C16: in main-lstm.py, for every combination of a missing file, a file that
\* does not load and a missing library, startup can run and completes; each
\* failed load leaves its handle None and each other load still takes place;
\* afterwards predict without a predictive model and optimize without an
\* optimization model return the simulation's result.
C16_StartupNeverFails ==
    /\ [][\A lf \in FileOutcomes, sf \in FileOutcomes, mf \in FileOutcomes :
            LstmStartupWith(lf, sf, mf) =>
                /\ phase' = "serving"
                /\ lstm_model' # None <=> HandlePresent(lf, TENSORFLOW_AVAILABLE)
                /\ scaler' # None <=> HandlePresent(sf, SKLEARN_AVAILABLE)
                /\ optimization_model' # None
                       <=> HandlePresent(mf, SKLEARN_AVAILABLE)]_vars
    /\ []((app = "lstm" /\ phase = "startup") =>
              \A lf \in FileOutcomes, sf \in FileOutcomes, mf \in FileOutcomes :
                  ENABLED LstmStartupWith(lf, sf, mf))
    /\ []((LstmServing /\ reply.op = "predict" /\ lstm_model = None
             /\ ValidPredictionInput(reply.req)) =>
              reply.result = lstm_simulate_prediction(reply.req, hashseed))
    /\ []((LstmServing /\ reply.op = "optimize" /\ optimization_model = None) =>
              reply.result = lstm_simulate_optimization(reply.req))

\* C16 witness: every load failed, and predict answered with the simulation
C16_Witness ==
    /\ LstmServing
    /\ lstm_model = None
    /\ scaler = None
    /\ optimization_model = None
    /\ ~model_info.isLoaded
    /\ reply.op = "predict"
    /\ reply.req = ExampleInput
    /\ ~reply.result.raised
    /\ reply.result.value.riskLevel = Num(1575000)

\* ModelState: the handles and the model_info record
ModelState ==
    <<lstm_model, scaler, outbreak_model, optimization_model, model_info>>

\* C17: ModelState is written by the startup step alone, which runs once: no
\* step taken after startup changes a handle or model_info, whichever request
\* it serves and whether the request succeeds or falls back, and the process
\* never returns to loading.
C17_ModelStateWrittenAtStartupOnly ==
    [][/\ phase = "serving" => (UNCHANGED ModelState /\ phase' = "serving")
       /\ ModelState' # ModelState => (phase = "startup" /\ phase' = "serving")
      ]_vars

\* C17 witness: a predict request whose model invocation raised has been
\* answered by the fallback, the model and the scaler still loaded
C17_Witness ==
    /\ LstmServing
    /\ reply.op = "predict"
    /\ reply.run # NoRun
    /\ reply.run.predict.raises
    /\ lstm_model # None
    /\ scaler # None
    /\ model_info.isLoaded

Positional(row, k, default) == IF Len(row) >= k THEN row[k] ELSE default

\* a float brought into [lo, hi], NaN brought to lo
ClampedTo(x, lo, hi) ==
    IF x.nan THEN lo
    ELSE IF x.v < lo.v THEN lo
    ELSE IF x.v > hi.v THEN hi
    ELSE x

\* a float brought to 0 or above, NaN brought to 0
ClampedBelow(x) == IF x.nan \/ x.v < 0 THEN Whole(0) ELSE x

\* the output read positionally from a row of raw scalars
PositionalOutput(row) ==
    MLPredictionOutput(
        ClampedTo(Positional(row, 1, Whole(50)), Whole(0), Whole(100)),
        ClampedBelow(Positional(row, 2, Whole(25))),
        ClampedTo(Positional(row, 3, Whole(85)), Whole(0), Whole(100)),
        FEATURE_IMPORTANCE)

\* a predict request of main-lstm.py whose model invocation returned an
\* array of ndim dimensions
ModelReturned(ndim) ==
    /\ LstmServing
    /\ reply.op = "predict"
    /\ ValidPredictionInput(reply.req)
    /\ reply.run # NoRun
    /\ reply.run.transform = "ok"
    /\ ~reply.run.predict.raises
    /\ reply.run.predict.ndim = ndim

\* C19: in main-lstm.py, when the model returns a 2-dimensional output of
\* shape (1, k) with k >= 3, predict returns the clamped first, second and
\* third scalar of the row as riskLevel, predictedCases and confidence, as
\* it does for a 3-dimensional output.
C19_TwoDimensionalOutputRead ==
    (ModelReturned(2) /\ Len(reply.run.predict.row) >= 3) =>
        reply.result = Return(PositionalOutput(reply.run.predict.row))

\* C20: in main-lstm.py, when the model returns a 3-dimensional output,
\* predict takes the scalars of the last timestep of the first batch element
\* positionally as risk, cases and confidence, puts 50.0, 25.0 and 85.0 in
\* the place of each missing one, and returns risk and confidence clamped to
\* [0, 100] and cases clamped to 0 or above.
C20_ThreeDimensionalOutputRead ==
    ModelReturned(3) =>
        reply.result = Return(PositionalOutput(reply.run.predict.row))

\* C20 witness: the last timestep held two scalars, both below 0: risk and
\* cases come back 0 and confidence the default
C20_Witness ==
    /\ ModelReturned(3)
    /\ reply.run.predict.earlier # << >>
    /\ reply.run.predict.row = << Whole(0 - 5), Whole(0 - 3) >>
    /\ reply.result.value.riskLevel = Whole(0)
    /\ reply.result.value.predictedCases = Whole(0)
    /\ reply.result.value.confidence = Whole(85)

\* the feature vector in canonical order, in tenths
CanonicalFeatures(i) ==
    << i.temperature, i.humidity, i.populationDensity, i.previousCases * T,
       i.wastewaterLevels, i.socialMediaSentiment >>

\* C21: the tensor preprocess_input returns, which predict hands to the
\* model, has 7 timesteps of 6 features; the timesteps are all equal, each the
\* feature vector in canonical order, as the scaler transforms it when a
\* scaler is loaded and as it is, with nothing raised, when none is.
C21_PreprocessedTensor ==
    (PredictReplyOf("lstm") /\ LstmModelPath /\ ValidPredictionInput(reply.req))
        => /\ scaler = None =>
                  /\ ~preprocess_input(reply.req, scaler, reply.run, 7).raised
                  /\ reply.fed = [step \in 1..7 |-> CanonicalFeatures(reply.req)]
           /\ (scaler # None /\ reply.run.transform = "ok") =>
                  /\ Len(reply.fed) = 7
                  /\ \A step \in 1..7 :
                        /\ Len(reply.fed[step]) = 6
                        /\ reply.fed[step] = reply.fed[1]
                        /\ \A k \in 1..6 :
                              reply.fed[step][k] =
                                  CanonicalFeatures(reply.req)[k] - ScalerCenter[k]

\* C21 witness: with a scaler loaded the model was handed the scaled reading
\* of the documented example seven times
C21_Witness ==
    /\ PredictReplyOf("lstm")
    /\ LstmModelPath
    /\ scaler # None
    /\ reply.req = ExampleInput
    /\ reply.run.transform = "ok"
    /\ Len(reply.fed) = 7
    /\ reply.fed[7] = << 55, 100, 5000, 100, 150, 1 >>

\* optimize of main-lstm.py or main.py reached the optimization model
OptimizeModelPath ==
    /\ reply.op = "optimize"
    /\ \/ app = "lstm" /\ optimization_model # None /\ SKLEARN_AVAILABLE
       \/ app = "main" /\ optimization_model # None

\* the model returned a row whose first four scalars are numbers
AllocationScalars ==
    /\ ~reply.run.predict.raises
    /\ reply.run.predict.ndim = 2
    /\ Len(reply.run.predict.row) >= 4
    /\ \A k \in 1..4 : ~reply.run.predict.row[k].nan

\* the mean of a non-empty series of tenths
MeanOf(q) == Num((SumSeq(q) * U) \div (Len(q) * T))

\* the integer part of a float that is a number, brought into [0, ceiling]
CastWithin(x, ceiling) ==
    LET whole == IF x.v >= 0 THEN x.v \div U ELSE 0 - ((0 - x.v) \div U)
    IN IF whole < 0 THEN 0 ELSE IF whole > ceiling THEN ceiling ELSE whole

\* C22: when the optimization model is loaded and returns at least 4 scalars,
\* optimize has fed it [beds, nurses, doctors, equipment, mean wait time,
\* mean patient flow]; each allocation field is the integer part of the
\* output at its position brought into [0, ceiling]; the improvements are the
\* outputs 4..7, with 28.0, 92.0, 15.0 and 22.0 each in the place of an
\* absent one; the recommendations are the fixed list of the simulation.
C22_ModelPathOptimization ==
    (OptimizeModelPath /\ AllocationScalars) =>
        LET row == reply.run.predict.row
            out == reply.result.value
        IN /\ ~reply.result.raised
           /\ reply.req.currentWaitTimes # << >> =>
                  reply.fed = << Whole(reply.req.beds), Whole(reply.req.nurses),
                                 Whole(reply.req.doctors),
                                 Whole(reply.req.equipment),
                                 MeanOf(reply.req.currentWaitTimes),
                                 MeanOf(reply.req.patientFlow) >>
           /\ out.optimizedAllocation =
                  Allocation(CastWithin(row[1], 100), CastWithin(row[2], 150),
                             CastWithin(row[3], 50), CastWithin(row[4], 100))
           /\ out.expectedImprovements =
                  Improvements(Positional(row, 5, Whole(28)),
                               Positional(row, 6, Whole(92)),
                               Positional(row, 7, Whole(15)),
                               Positional(row, 8, Whole(22)))
           /\ Len(out.recommendations) = 3
           /\ out.recommendations =
                  lstm_simulate_optimization(reply.req).value.recommendations
           /\ out.recommendations =
                  main_simulate_optimization(reply.req).value.recommendations

\* C22 witness: the model returned six scalars for the test request: four
\* allocations, two improvements, and two improvements by default
C22_Witness ==
    /\ OptimizeModelPath
    /\ reply.req = ExampleOptimization
    /\ reply.run.predict.row =
           << Whole(95), Whole(140), Whole(45), Whole(99),
              Num(610000), Whole(88) >>
    /\ reply.fed[5] = Num(1044000)
    /\ reply.result.value.optimizedAllocation = Allocation(95, 140, 45, 99)
    /\ reply.result.value.expectedImprovements =
           Improvements(Num(610000), Whole(88), Whole(15), Whole(22))

\* C23: when the optimization model is loaded and a step of the model path
\* fails (the invocation raises, the row has fewer than 4 scalars, the output
\* is not 2-dimensional, or a scalar has no integer part), optimize surfaces
\* no error and returns what simulate_optimization returns for the input.
C23_OptimizeFallbackIsSimulation ==
    (OptimizeModelPath /\ ~AllocationScalars) =>
        /\ ~reply.result.raised
        /\ app = "lstm" =>
               reply.result = lstm_simulate_optimization(reply.req)
        /\ app = "main" =>
               reply.result = main_simulate_optimization(reply.req)

\* C23 witness: the model returned two scalars and optimize answered the
\* test request with the simulation's allocation and improvements
C23_Witness ==
    /\ OptimizeModelPath
    /\ app = "lstm"
    /\ reply.req = ExampleOptimization
    /\ ~reply.run.predict.raises
    /\ reply.run.predict.row = << Whole(90), Whole(130) >>
    /\ ~reply.result.raised
    /\ reply.result.value.optimizedAllocation = Allocation(90, 130, 37, 93)
    /\ reply.result.value.expectedImprovements =
           Improvements(Whole(28), Whole(92), Whole(15), Whole(22))

\* the predict reply of main-lstm.py came from simulate_prediction: no model
\* to go to, or a model path that raised
LstmSimulated ==
    /\ PredictReplyOf("lstm")
    /\ \/ ~LstmModelPath
       \/ predict_with_lstm(reply.req, lstm_model, scaler, reply.run).raised

\* C24: on the simulation path of predict the confidence lies in [70, 95]:
\* in main-lstm.py for every timestamp, a negative hash included, and in
\* main-working.py for every temperature and humidity.
C24_SimulatedConfidenceRange ==
    /\ (LstmSimulated /\ ValidPredictionInput(reply.req)) =>
           InRange(reply.result.value.confidence, 70, 95)
    /\ (PredictReplyOf("working") /\ ValidPredictionInput(reply.req)) =>
           InRange(reply.result.value.confidence, 70, 95)

\* C24 witness: the timestamp's hash was negative and the confidence of the
\* simulation is in range
C24_Witness ==
    /\ LstmSimulated
    /\ ValidPredictionInput(reply.req)
    /\ PyHash(hashseed, reply.req.timestamp) < 0
    /\ InRange(reply.result.value.confidence, 70, 95)

\* the six feature names in canonical order
CanonicalNames ==
    << "temperature", "humidity", "populationDensity", "previousCases",
       "wastewaterLevels", "socialMediaSentiment" >>

\* a featureImportance mapping with the canonical names in order, every
\* weight (in hundredths) in [0, 1], and the weights of the constant
CanonicalImportance(fi) ==
    /\ Len(fi) = 6
    /\ \A k \in 1..6 :
          /\ fi[k][1] = CanonicalNames[k]
          /\ fi[k][2] \in 0..100
    /\ [k \in 1..6 |-> fi[k][2]] = << 85, 72, 68, 91, 63, 45 >>

\* C25: featureImportance of every predict result and of every prediction of
\* a predictBatch result is the same constant mapping: the six canonical
\* names in canonical order, every weight in [0, 1], whatever the request and
\* whether the model or the simulation produced the result.
C25_FeatureImportanceConstant ==
    /\ (reply.op = "predict" /\ ~reply.result.raised) =>
           CanonicalImportance(reply.result.value.featureImportance)
    /\ (reply.op = "batch" /\ ~reply.result.raised) =>
           \A k \in 1..Len(reply.result.value) :
               CanonicalImportance(reply.result.value[k].featureImportance)

\* C25 witness: a batch of two whose first prediction the model produced and
\* whose second the simulation produced, after the model raised
C25_Witness ==
    /\ app = "lstm"
    /\ LstmModelPath
    /\ reply.op = "batch"
    /\ ~reply.result.raised
    /\ Len(reply.result.value) = 2
    /\ ~reply.run[1].predict.raises
    /\ reply.run[1].predict.ndim = 3
    /\ reply.run[2].predict.raises
    /\ reply.result.value[1].featureImportance[4] = << "previousCases", 91 >>
    /\ reply.result.value[2].featureImportance
           = reply.result.value[1].featureImportance

\* a number of units of 1 / U brought into [lo, hi] whole
Bounded(v, lo, hi) ==
    IF v < lo * U THEN lo * U ELSE IF v > hi * U THEN hi * U ELSE v

\* C26: in main-working.py, for every input with a non-empty
\* currentWaitTimes, optimize returns waitTimeReduction = clamp(mean * 0.3,
\* 15, 40), bedUtilization = min(95, beds + 10), staffEfficiency = min(25,
\* (nurses + doctors) * 0.1) and patientSatisfaction = min(30,
\* waitTimeReduction * 0.8); waitTimeReduction is in [15, 40] and
\* patientSatisfaction in [12, 30].
C26_WorkingImprovements ==
    (app = "working" /\ reply.op = "optimize"
       /\ reply.req.currentWaitTimes # << >>) =>
        LET i == reply.req
            out == reply.result.value.expectedImprovements
            mean == (SumSeq(i.currentWaitTimes) * U)
                        \div (Len(i.currentWaitTimes) * T)
            reduction == Bounded((mean * 3) \div 10, 15, 40)
            staff == ((i.nurses + i.doctors) * U) \div 10
            satisfaction == (reduction * 8) \div 10
        IN /\ ~reply.result.raised
           /\ out.waitTimeReduction = Num(reduction)
           /\ out.bedUtilization =
                  Whole(IF i.beds + 10 > 95 THEN 95 ELSE i.beds + 10)
           /\ out.staffEfficiency = Num(IF staff > 25 * U THEN 25 * U ELSE staff)
           /\ out.patientSatisfaction =
                  Num(IF satisfaction > 30 * U THEN 30 * U ELSE satisfaction)
           /\ InRange(out.waitTimeReduction, 15, 40)
           /\ InRange(out.patientSatisfaction, 12, 30)

\* C26 witness: the test request, whose mean wait of 52.2 gives a reduction
\* of 15.66 and a satisfaction of 12.528
C26_Witness ==
    /\ app = "working"
    /\ reply.op = "optimize"
    /\ reply.req = ExampleOptimization
    /\ reply.result.value.expectedImprovements =
           Improvements(Num(313200), Whole(95), Num(310000), Num(250560))

====
